---- MODULE Spec2Model ----
(***************************************************************************)
(* Vertica metadata crawler: the two source classes of the repository,     *)
(*   VerticaSource             (ingestion/source/sql/vertica.py)           *)
(*   Vertica_SQLAlchemySource  (ingestion/source/vertica/common.py)        *)
(* with the dialect's type mapper (base.py), modelled as state machines.   *)
(***************************************************************************)
EXTENDS Integers, Sequences, FiniteSets, TLC

(***************************************************************************)
(* Bounds of the model.                                                    *)
(***************************************************************************)
\* rows the engine returns over one run, all entity enumerations together
MaxEntities == 2
\* exceptions raised by collaborators (inspector, builders) during one run
MaxFaults == 1

(***************************************************************************)
(* The catalog the inspector reads from.                                   *)
(***************************************************************************)
\* rows of v_catalog.schemata, in the order the engine returns them
SchemaNames == <<"s1", "s2">>
\* entity names the engine may return for any schema and kind; the catalog
\* keeps the case an object was created with
EntityNames == {"a", "b", "A"}
\* names the engine may return for OAuth objects
OAuthNames == {"o"}
\* the schema name loop_models and get_workunits hard-code
EntitiesSchema == "Entities"

Range(s) == {s[i] : i \in DOMAIN s}

SeqsUpTo(S, n) == UNION {[1..k -> S] : k \in 0..n}

\* get_db_name: the database of the engine url, lower-cased
get_db_name == "db"

\* get_identifier: f"{schema}.{entity}"
get_identifier(schema, entity) == schema \o "." \o entity

\* str.lower() on the names of the model
Lower(name) ==
    CASE name = "A" -> "a"
      [] name = "V2" -> "v2"
      [] OTHER -> name

AllSchemas == Range(SchemaNames) \cup {EntitiesSchema}

AllDatasetNames ==
    {get_identifier(s, e) : s \in AllSchemas, e \in EntityNames \cup OAuthNames}

(***************************************************************************)
(* AllowDenyPattern: a name is allowed iff it matches an allow regex and   *)
(* no deny regex.  A pattern is the set of names each list matches.        *)
(***************************************************************************)
PatternUniverse == AllSchemas \cup AllDatasetNames

\* AllowDenyPattern.allow_all(): allow = [".*"], deny = []
allow_all == [given |-> TRUE, allow |-> PatternUniverse, deny |-> {}]

\* a pattern the recipe leaves out
Unset == [given |-> FALSE, allow |-> {}, deny |-> {}]

\* deny: [".*\.b"]
DenyB ==
    [given |-> TRUE, allow |-> PatternUniverse,
     deny |-> {get_identifier(s, "b") : s \in AllSchemas}]

\* deny: ["<schema>"]
DenySchema(s) == [given |-> TRUE, allow |-> PatternUniverse, deny |-> {s}]

allowed(pattern, name) == name \in pattern.allow /\ name \notin pattern.deny

(***************************************************************************)
(* Configuration: the recipe as written, and the config after pydantic's   *)
(* defaults and root validators.                                           *)
(***************************************************************************)
DefaultRecipe ==
    [schema_pattern |-> Unset,
     table_pattern |-> Unset,
     view_pattern |-> Unset,
     projection_pattern |-> Unset,
     models_pattern |-> Unset,
     oauth_pattern |-> Unset,
     include_tables |-> TRUE,
     include_views |-> TRUE,
     include_projections |-> TRUE,
     include_models |-> TRUE,
     include_Outh |-> TRUE,
     include_view_lineage |-> TRUE,
     include_projection_lineage |-> TRUE,
     profiling_enabled |-> FALSE,
     platform_instance |-> FALSE]

\* the recipes of the model: the default one and every recipe that sets one option
Recipes ==
    {DefaultRecipe}
    \cup {[DefaultRecipe EXCEPT !.schema_pattern = DenySchema(s)] : s \in Range(SchemaNames)}
    \cup {[DefaultRecipe EXCEPT !.table_pattern = DenyB],
          [DefaultRecipe EXCEPT !.view_pattern = DenyB],
          [DefaultRecipe EXCEPT !.projection_pattern = DenyB],
          [DefaultRecipe EXCEPT !.models_pattern = DenyB],
          [DefaultRecipe EXCEPT !.include_tables = FALSE],
          [DefaultRecipe EXCEPT !.include_views = FALSE],
          [DefaultRecipe EXCEPT !.include_view_lineage = FALSE],
          [DefaultRecipe EXCEPT !.profiling_enabled = TRUE],
          [DefaultRecipe EXCEPT !.platform_instance = TRUE]}

\* VerticaConfig declares no projection_pattern and no oauth_pattern
RecipesOf(v) ==
    IF v = "sql"
    THEN {r \in Recipes : ~r.projection_pattern.given /\ ~r.oauth_pattern.given}
    ELSE Recipes

OrDefault(pattern) == IF pattern.given THEN pattern ELSE allow_all

\* SQLAlchemyConfig.view_pattern_is_table_pattern_unless_specified
view_pattern_is_table_pattern_unless_specified(values) ==
    IF values.table_pattern.given /\ ~values.view_pattern.given
    THEN [values EXCEPT !.view_pattern = values.table_pattern]
    ELSE values

\* SQLAlchemyConfig / VerticaConfig: the validated config of a recipe
ParseConfig(recipe) ==
    LET v == view_pattern_is_table_pattern_unless_specified(recipe)
    IN  [v EXCEPT !.schema_pattern = OrDefault(v.schema_pattern),
                  !.table_pattern = OrDefault(v.table_pattern),
                  !.view_pattern = OrDefault(v.view_pattern),
                  !.projection_pattern = OrDefault(v.projection_pattern),
                  !.models_pattern = OrDefault(v.models_pattern),
                  !.oauth_pattern = OrDefault(v.oauth_pattern)]

(***************************************************************************)
(* State.                                                                  *)
(***************************************************************************)
VARIABLES
    variant,        \* which source class runs: "sql" (VerticaSource) or "common"
    config,         \* self.config
    pc,             \* position of the get_workunits generator
    kind,           \* entity kind whose loop is running
    schema_queue,   \* schema names get_allowed_schemas has not reached yet
    cur_schema,     \* schema of the current iteration
    cur_list,       \* names the running for-loop has not reached yet
    seen,           \* tables_seen / views_seen / ... of the running loop
    iterated,       \* dataset names the running loop has been through (history)
    report,         \* self.report
    out,            \* work units yielded so far, in order
    checkpoint,     \* entities added to the checkpoint state in this run
    prior,          \* last checkpoint as loaded by the reconciler
    admitted,       \* entities that passed the duplicate and pattern checks
    enumerated,     \* <<schema, enumeration>> pairs asked of the inspector
    profile_requests, \* GEProfilerRequests collected so far
    rows,           \* engine rows read so far (bounded by MaxEntities)
    faults,         \* exceptions raised so far (bounded by MaxFaults)
    tm,             \* the type mapper at work on one row of v_catalog.columns
    lm,             \* the view-lineage resolver at work on one view
    reg,            \* the module-level type tables and the contexts using them
    cn,             \* the engines and connections of one run
    dbt,            \* the dbt manifest node being extracted
    call,           \* one call of a function of the source: arguments and outcome
    rr              \* the catalog's answers of a first run, for a second run

\* the variables of the crawl
crawl ==
    <<variant, config, pc, kind, schema_queue, cur_schema, cur_list, seen, iterated,
      report, out, checkpoint, prior, admitted, enumerated, profile_requests,
      rows, faults, rr>>

\* the variables the crawl leaves alone
aside == <<tm, lm, reg, cn, dbt, call>>

vars == <<crawl, aside>>

Kinds == <<"table", "view", "projection", "models">>

\* SQLSourceReport / VerticaSourceReport after construction
EmptyReport ==
    [scanned |-> [k \in Range(Kinds) \cup {"OAuth"} |-> 0],
     filtered |-> <<>>,
     warnings |-> <<>>,
     failures |-> <<>>]

NoCheckpoint == [exists |-> FALSE, entities |-> {}]

\* no column row is being mapped
NoColumn ==
    [pc |-> "idle", dataset_name |-> "", name |-> "",
     format_type |-> [base |-> "", args |-> <<>>],
     coltype |-> "", error |-> "", py_warnings |-> <<>>,
     field_type |-> "", warnings |-> <<>>]

\* no view is being resolved; self._lineage_map is not assigned
NoRequest ==
    [pc |-> "idle", view_tables |-> <<>>, schema |-> "", view |-> "",
     assigned |-> FALSE, lineage_map |-> <<>>, warnings |-> <<>>,
     upstreams |-> <<>>, error |-> "", built_for |-> <<>>, asked |-> 0]

\* the type tables as the module defines them: nothing registered
NoRegistry ==
    [field_type_mapping |-> {}, known_unknown_field_types |-> {},
     registered |-> {}, asked |-> <<>>]

\* no run has acquired an engine: the engines create_engine has made, those
\* with a connection checked out, those whose pool holds an open connection
NoEngines == [pc |-> "idle", schema_queue |-> <<>>, engines |-> {}, checked_out |-> {},
              pool |-> {}]

\* no manifest node is being extracted
NoNode == [pc |-> "idle", manifest_node |-> <<>>, use_identifiers |-> FALSE, name |-> ""]

\* no function is being called
NoCall == [pc |-> "idle"]

\* the parts of the source that are not at work
Idle(parts) ==
    /\ "tm" \in parts => tm = NoColumn
    /\ "lm" \in parts => lm = NoRequest
    /\ "reg" \in parts => reg = NoRegistry
    /\ "cn" \in parts => cn = NoEngines
    /\ "dbt" \in parts => dbt = NoNode
    /\ "call" \in parts => call = NoCall

\* a single run: the answers of the catalog are not kept
NoScript == [run |-> 0, log |-> {}, first |-> <<>>, first_pc |-> ""]

\* the inspector answers question with answer.  In the first of two runs the
\* answer is kept; in the second run, over the unchanged catalog, a question
\* asked before gets the answer it got before.
Answer(question, answer) ==
    CASE rr.run = 0 -> UNCHANGED rr
      [] rr.run = 1 -> rr' = [rr EXCEPT !.log = @ \cup {<<question, answer>>}]
      [] rr.run = 2 -> /\ \A e \in rr.log : e[1] = question => e[2] = answer
                       /\ UNCHANGED rr

\* a question about a schema, a kind of entity and the names a loop is left with
Question(site, schema, k, names) == <<site, schema, k, names>>

\* a source after construction, before get_workunits runs
Fresh ==
    /\ variant \in {"sql", "common"}
    /\ config \in {ParseConfig(r) : r \in RecipesOf(variant)}
    /\ pc = "start"
    /\ kind = "table"
    /\ schema_queue = SchemaNames
    /\ cur_schema = ""
    /\ cur_list = <<>>
    /\ seen = {}
    /\ iterated = {}
    /\ report = EmptyReport
    /\ out = <<>>
    /\ checkpoint = {}
    /\ prior = NoCheckpoint
    /\ admitted = <<>>
    /\ enumerated = {}
    /\ profile_requests = <<>>
    /\ rows = 0
    /\ Idle({"tm", "lm", "reg", "cn", "dbt", "call"})
    /\ faults = 0

Init == Fresh /\ rr = NoScript

(***************************************************************************)
(* Report and work-unit helpers.                                           *)
(***************************************************************************)
\* SQLSourceReport.report_entity_scanned (common.py) and
\* VerticaSourceReport.report_entity_scanned (vertica.py)
report_entity_scanned(rep, ent_type) ==
    [rep EXCEPT !.scanned[ent_type] = @ + 1]

\* SQLSourceReport.report_dropped
report_dropped(rep, ent_name) ==
    [rep EXCEPT !.filtered = Append(@, ent_name)]

report_warning(rep, key, reason) ==
    [rep EXCEPT !.warnings = Append(@, [key |-> key, reason |-> reason])]

report_failure(rep, key, reason) ==
    [rep EXCEPT !.failures = Append(@, [key |-> key, reason |-> reason])]

\* make_dataset_urn_with_platform_instance(platform, name, platform_instance, env)
make_dataset_urn(name) ==
    IF config.platform_instance
    THEN "urn:li:dataset:(vertica,inst." \o name \o ",PROD)"
    ELSE "urn:li:dataset:(vertica," \o name \o ",PROD)"

database_container_urn(database) == "urn:li:container:" \o database

schema_container_urn(database, schema) ==
    "urn:li:container:" \o database \o "." \o schema

WorkUnit(id, urn, aspects, parent) ==
    [id |-> id, urn |-> urn, aspects |-> aspects, parent |-> parent]


NoWU == WorkUnit("", "", <<>>, "")
NoEntry == <<"", "">>

(***************************************************************************)
(* The steps of processing one admitted entity.  A step is an external     *)
(* call that may raise, a work unit yielded, an entity added to the        *)
(* checkpoint state, or a warning reported.  A block is a try statement:   *)
(* its steps, and what its except clause does.                             *)
(***************************************************************************)
Call(site) == [op |-> "call", site |-> site, wu |-> NoWU, entry |-> NoEntry]
Emit(wu) == [op |-> "emit", site |-> "", wu |-> wu, entry |-> NoEntry]
AddState(type, urn) == [op |-> "state", site |-> "", wu |-> NoWU, entry |-> <<type, urn>>]
\* a statement that raises whenever it is reached
Raise(site) == [op |-> "raise", site |-> site, wu |-> NoWU, entry |-> NoEntry]
Warn(key, reason) == [op |-> "warn", site |-> reason, wu |-> NoWU, entry |-> <<key, reason>>]

\* guard "entity": except -> report_warning(key), the loop goes on
\* guard "schema": the exception reaches the loop's outer except
Block(steps, guard, key) == [steps |-> steps, guard |-> guard, key |-> key]

\* add_owner_to_entity_wu
OwnerWU(urn) == WorkUnit("owner-to-" \o urn, urn, <<"ownership">>, "")

\* add_table_to_schema_container -> add_dataset_to_container
ContainerWU(urn, schema) ==
    WorkUnit("container-" \o schema_container_urn(get_db_name, schema) \o "-to-" \o urn,
             urn, <<"container">>, schema_container_urn(get_db_name, schema))

\* SqlWorkUnit(id=dataset_name, mce=MetadataChangeEvent(proposedSnapshot=dataset_snapshot))
\* a snapshot work unit whose id carries the number of the run on this source
SnapshotWUOfRun(dataset_name, urn, has_schema_metadata) ==
    WorkUnit(IF rr.run = 2 THEN dataset_name \o "-2" ELSE dataset_name, urn,
             IF has_schema_metadata
             THEN <<"status", "datasetProperties", "schemaMetadata">>
             ELSE <<"status", "datasetProperties">>,
             "")

SnapshotWU(dataset_name, urn, has_schema_metadata) ==
    WorkUnit(dataset_name, urn,
             IF has_schema_metadata
             THEN <<"status", "datasetProperties", "schemaMetadata">>
             ELSE <<"status", "datasetProperties">>,
             "")

\* get_dataplatform_instance_aspect
get_dataplatform_instance_aspect(urn) ==
    IF config.platform_instance
    THEN <<Emit(WorkUnit(urn \o "-dataPlatformInstance", urn, <<"dataPlatformInstance">>, ""))>>
    ELSE <<>>

SubTypesWU(id, urn) == WorkUnit(id, urn, <<"subTypes">>, "")

\* MetadataChangeProposalWrapper(...).as_workunit()
as_workunit(urn, aspectName) == WorkUnit(urn \o "-" \o aspectName, urn, <<aspectName>>, "")

LineageWU(urn) ==
    WorkUnit("vertica-" \o urn \o "-upstreamLineage", urn, <<"upstreamLineage">>, "")

\* the lineage try block: _get_upstream_lineage_info, then the lineage work unit
\* when it returned upstreams
LineageSteps(urn, lin) ==
    <<Call("_get_upstream_lineage_info")>>
    \o (IF lin = "found" THEN <<Emit(LineageWU(urn))>> ELSE <<>>)

\* VerticaSource.loop_tables, vertica.py 296-372
sql_table_blocks(schema, name, dataset_name) ==
    LET urn == make_dataset_urn(dataset_name)
    IN  <<Block(<<Emit(OwnerWU(urn)), Call("get_schema_fields"),
                  Emit(ContainerWU(urn, schema)), Emit(SnapshotWU(dataset_name, urn, TRUE))>>
                \o get_dataplatform_instance_aspect(urn)
                \o <<Emit(SubTypesWU(dataset_name \o "-subtypes", urn))>>,
                "schema", schema)>>

\* VerticaSource.loop_views, vertica.py 451-570
sql_view_blocks(schema, name, dataset_name, lin) ==
    LET urn == make_dataset_urn(dataset_name)
    IN  <<Block(<<Emit(OwnerWU(urn)), Call("get_schema_fields"),
                  Emit(ContainerWU(urn, schema)), Emit(SnapshotWU(dataset_name, urn, TRUE))>>
                \o get_dataplatform_instance_aspect(urn)
                \o <<Emit(SubTypesWU(dataset_name \o "-subtypes", urn))>>,
                "schema", schema)>>
        \o (IF config.include_view_lineage
            THEN <<Block(LineageSteps(urn, lin), "entity", name)>>
            ELSE <<>>)

\* VerticaSource.loop_projections, vertica.py 733-844
sql_projection_blocks(schema, name, dataset_name, lin) ==
    LET urn == make_dataset_urn(dataset_name)
    IN  <<Block(<<Emit(OwnerWU(urn)), Call("get_schema_fields"),
                  Emit(ContainerWU(urn, schema)), Emit(SnapshotWU(dataset_name, urn, TRUE))>>
                \o get_dataplatform_instance_aspect(urn)
                \o <<Emit(as_workunit(urn, "subTypes"))>>,
                "schema", schema)>>
        \o (IF config.include_projection_lineage
            THEN <<Block(LineageSteps(urn, lin), "entity", schema)>>
            ELSE <<>>)

\* VerticaSource.loop_models, vertica.py 1028-1099
sql_models_blocks(schema, name, dataset_name) ==
    LET urn == make_dataset_urn(dataset_name)
    IN  <<Block(<<Call("get_model_properties"),
                  Emit(ContainerWU(urn, schema)), Emit(SnapshotWU(dataset_name, urn, TRUE))>>
                \o get_dataplatform_instance_aspect(urn)
                \o <<Emit(as_workunit(urn, "subTypes"))>>,
                "entity", get_identifier(schema, name))>>

\* _get_columns: an exception of inspector.get_columns is caught and reported
\* under the dataset name
get_columns_steps(dataset_name, colfault) ==
    IF colfault
    THEN <<Warn(dataset_name, "unable to get column information")>>
    ELSE <<>>

\* Vertica_SQLAlchemySource.loop_tables 913-923 and _process_table
common_table_blocks(schema, name, dataset_name, colfault) ==
    LET urn == make_dataset_urn(dataset_name)
    IN  <<Block(get_columns_steps(dataset_name, colfault)
                \o <<AddState("table", urn), Call("get_table_properties"),
                     Emit(ContainerWU(urn, schema)), Emit(SnapshotWU(dataset_name, urn, TRUE))>>
                \o get_dataplatform_instance_aspect(urn)
                \o <<Emit(SubTypesWU(dataset_name \o "-subtypes", urn))>>,
                "entity", get_identifier(schema, name))>>

\* Vertica_SQLAlchemySource.loop_projections 959-969 and _process_projections
common_projection_blocks(schema, name, dataset_name, colfault) ==
    LET urn == make_dataset_urn(dataset_name)
    IN  <<Block(get_columns_steps(dataset_name, colfault)
                \o <<AddState("projection", urn), Call("get_projection_properties"),
                     Emit(ContainerWU(urn, schema)), Emit(SnapshotWU(dataset_name, urn, TRUE))>>
                \o get_dataplatform_instance_aspect(urn)
                \o <<Emit(SubTypesWU(dataset_name \o "-subtypes", urn))>>,
                "entity", get_identifier(schema, name))>>

\* Vertica_SQLAlchemySource.loop_models 1006-1015 and _process_models
common_models_blocks(schema, name, dataset_name) ==
    LET urn == make_dataset_urn(dataset_name)
    IN  <<Block(<<AddState("model", urn), Call("get_model_properties"),
                  Emit(ContainerWU(urn, schema)), Emit(SnapshotWU(dataset_name, urn, TRUE))>>
                \o get_dataplatform_instance_aspect(urn)
                \o <<Emit(SubTypesWU(dataset_name \o "-subtypes", urn))>>,
                "entity", get_identifier(schema, name))>>

\* Vertica_SQLAlchemySource.loop_views 1798-1855 and _process_view; colfault is
\* the KeyError of inspector.get_columns that _process_view catches.
\* _get_upstream_lineage_info reads self._lineage_map, which nothing assigns
\* before the read: the lookup raises AttributeError for every view.
common_view_blocks(schema, name, dataset_name, lin, colfault) ==
    LET urn == make_dataset_urn(dataset_name)
    IN  <<Block(<<Raise("_get_upstream_lineage_info")>>,
                "entity", get_identifier(schema, name)),
          Block((IF colfault
                 THEN <<Warn(dataset_name, "unable to get schema for this view")>>
                 ELSE <<>>)
                \o <<Call("get_table_properties"),
                     Emit(ContainerWU(urn, schema)),
                     AddState("view", urn),
                     Emit(SnapshotWU(dataset_name, urn, ~colfault))>>
                \o get_dataplatform_instance_aspect(urn)
                \o <<Emit(SubTypesWU(name \o "-subtypes", urn)),
                     Emit(as_workunit(urn, "viewProperties"))>>,
                "entity", get_identifier(schema, name))>>

\* Vertica_SQLAlchemySource.loop_Oauth 1050-1060 and _process_Oauth
common_Oauth_blocks(schema, name, dataset_name) ==
    LET urn == make_dataset_urn(dataset_name)
    IN  <<Block(<<AddState("OAuth", urn), Call("get_oauth_properties"),
                  Emit(ContainerWU(urn, schema)), Emit(SnapshotWU(dataset_name, urn, TRUE))>>
                \o get_dataplatform_instance_aspect(urn)
                \o <<Emit(SubTypesWU(dataset_name \o "-subtypes", urn))>>,
                "entity", get_identifier(schema, name))>>

\* the try blocks that process one admitted entity of kind k
EntityBlocks(k, schema, name, dataset_name, lin, colfault) ==
    IF variant = "sql"
    THEN CASE k = "table" -> sql_table_blocks(schema, name, dataset_name)
           [] k = "view" -> sql_view_blocks(schema, name, dataset_name, lin)
           [] k = "projection" -> sql_projection_blocks(schema, name, dataset_name, lin)
           [] k = "models" -> sql_models_blocks(schema, name, dataset_name)
    ELSE CASE k = "table" -> common_table_blocks(schema, name, dataset_name, colfault)
           [] k = "view" -> common_view_blocks(schema, name, dataset_name, lin, colfault)
           [] k = "projection" -> common_projection_blocks(schema, name, dataset_name, colfault)
           [] k = "models" -> common_models_blocks(schema, name, dataset_name)
           [] k = "OAuth" -> common_Oauth_blocks(schema, name, dataset_name)

\* does the code of kind k look up lineage / fetch columns through a local except
HasLineage(k) ==
    \/ variant = "sql" /\ k = "view" /\ config.include_view_lineage
    \/ variant = "sql" /\ k = "projection" /\ config.include_projection_lineage

HasLocalColumnExcept(k) == variant = "common" /\ k \in {"table", "view", "projection"}

(***************************************************************************)
(* Running the blocks of one entity.  f[b] is the step of block b at which *)
(* a call raises (0: none does).                                           *)
(***************************************************************************)
CallPositions(block) ==
    {j \in 1..Len(block.steps) :
        /\ block.steps[j].op = "call"
        /\ \A i \in 1..j : block.steps[i].op # "raise"}

\* position of the first statement of the block that always raises, 0 if none
RaisePosition(block) ==
    IF \E j \in 1..Len(block.steps) : block.steps[j].op = "raise"
    THEN CHOOSE j \in 1..Len(block.steps) :
            /\ block.steps[j].op = "raise"
            /\ \A i \in 1..(j - 1) : block.steps[i].op # "raise"
    ELSE 0

\* where the block stops: at the call chosen to raise, else at its raise statement
StopsAt(block, j) == IF j # 0 THEN j ELSE RaisePosition(block)

Executed(block, j) ==
    IF StopsAt(block, j) = 0
    THEN block.steps
    ELSE SubSeq(block.steps, 1, StopsAt(block, j) - 1)

StepsOf(steps, op) == SelectSeq(steps, LAMBDA st : st.op = op)

RECURSIVE RunBlocks(_, _, _, _)
\* acc: [emits, adds, rep, broke]; broke: the exception left the entity's code
RunBlocks(blocks, f, b, acc) ==
    IF b > Len(blocks) \/ acc.broke
    THEN acc
    ELSE LET block == blocks[b]
             ran == Executed(block, f[b])
             emitted == [i \in 1..Len(StepsOf(ran, "emit")) |-> StepsOf(ran, "emit")[i].wu]
             added == {st.entry : st \in Range(StepsOf(ran, "state"))}
             warned == StepsOf(ran, "warn")
             rep1 == [acc.rep EXCEPT !.warnings =
                         @ \o [i \in 1..Len(warned) |->
                                 [key |-> warned[i].entry[1], reason |-> warned[i].entry[2]]]]
             rep2 == IF StopsAt(block, f[b]) # 0 /\ block.guard = "entity"
                     THEN report_warning(rep1, block.key, "Ingestion error")
                     ELSE rep1
         IN  RunBlocks(blocks, f, b + 1,
                       [emits |-> acc.emits \o emitted,
                        adds |-> acc.adds \cup added,
                        rep |-> rep2,
                        broke |-> StopsAt(block, f[b]) # 0 /\ block.guard = "schema"])

\* the fault placements the remaining budget allows
FaultChoices(blocks, budget) ==
    {f \in [1..Len(blocks) -> 0..8] :
        /\ \A b \in 1..Len(blocks) : f[b] = 0 \/ f[b] \in CallPositions(blocks[b])
        /\ Cardinality({b \in 1..Len(blocks) : f[b] # 0}) <= budget
        /\ \A b \in 1..Len(blocks) :
              (f[b] # 0 /\ blocks[b].guard = "schema")
                  => \A c \in (b + 1)..Len(blocks) : f[c] = 0}


(***************************************************************************)
(* Per-kind choices of the two source classes.                             *)
(***************************************************************************)
\* the include_* option that get_workunits tests before a loop
IncludeFlag(k) ==
    CASE k = "table" -> config.include_tables
      [] k = "view" -> config.include_views
      [] k = "projection" -> config.include_projections
      [] k = "models" -> config.include_models
      [] k = "OAuth" -> config.include_Outh

\* the pattern each loop hands the dataset name to
PatternOf(k) ==
    CASE k = "OAuth" -> config.oauth_pattern
      [] k = "view" /\ variant = "common" -> config.view_pattern
      [] OTHER -> config.table_pattern

\* every loop keeps a *_seen set but Vertica_SQLAlchemySource.loop_views
HasDuplicateCheck(k) == ~(variant = "common" /\ k = "view")

\* loop_models calls get_identifier(schema="Entities", ...)
IdentifierSchema(k, schema) == IF k = "models" THEN EntitiesSchema ELSE schema

\* ent_type of report_entity_scanned
EntType(k) == k

\* reason of the report_failure in the loop's outer except
ErrorReason(k) ==
    IF variant = "sql"
    THEN CASE k = "table" -> "Tables error"
           [] k = "view" -> "Views error"
           [] k = "projection" -> "Projections error"
           [] k = "models" -> "Model error"
    ELSE IF k = "view" THEN "Views error" ELSE "Tables error"

NamesOf(k) == IF k = "OAuth" THEN OAuthNames ELSE EntityNames

(***************************************************************************)
(* Control flow of get_workunits / get_workunits_internal.                 *)
(***************************************************************************)
Target(p, k, s) == [pc |-> p, kind |-> k, schema |-> s]

\* after loop_profiler (or when it is not run)
AfterProfiler ==
    IF variant = "common"
    THEN Target("enum", "OAuth", EntitiesSchema)
    ELSE Target("done", "table", cur_schema)

\* after the for loop over get_allowed_schemas
AfterSchemaLoop ==
    IF config.profiling_enabled /\ profile_requests # <<>>
    THEN Target("profiler", "table", cur_schema)
    ELSE AfterProfiler

\* the loops of a schema with the projections before the views
AfterProjectionsFirst(k) ==
    CASE k = "table" -> Target("enum", "projection", cur_schema)
      [] k = "projection" -> Target("enum", "view", cur_schema)
      [] k = "view" -> Target("enum", "models", cur_schema)
      [] k = "models" ->
            IF config.profiling_enabled
            THEN Target("profile_requests", "table", cur_schema)
            ELSE Target("schemas", "table", cur_schema)
      [] k = "OAuth" ->
            Target("stale", "table", cur_schema)

\* after the loop of kind k returned
After(k) ==
    CASE k = "table" -> Target("enum", "view", cur_schema)
      [] k = "view" -> Target("enum", "projection", cur_schema)
      [] k = "projection" -> Target("enum", "models", cur_schema)
      [] k = "models" ->
            IF config.profiling_enabled
            THEN Target("profile_requests", "table", cur_schema)
            ELSE Target("schemas", "table", cur_schema)
      [] k = "OAuth" ->
            Target("stale", "table", cur_schema)

Goto(t) ==
    /\ pc' = t.pc
    /\ kind' = t.kind
    /\ cur_schema' = t.schema

\* gen_containers: the work units of one container
gen_containers(urn, name, parent) ==
    <<WorkUnit("container-info-" \o name \o "-" \o urn, urn, <<"containerProperties">>, ""),
      WorkUnit("container-subtypes-" \o name \o "-" \o urn, urn, <<"subTypes">>, "")>>
    \o (IF parent # ""
        THEN <<WorkUnit("container-parent-" \o name \o "-" \o urn, urn, <<"container">>, parent)>>
        ELSE <<>>)

gen_database_containers ==
    /\ pc = "start"
    /\ out' = out \o gen_containers(database_container_urn(get_db_name), get_db_name, "")
    /\ pc' = "schemas"
    /\ UNCHANGED <<rr, iterated, aside, variant, config, kind, schema_queue, cur_schema, cur_list, seen,
                   report, checkpoint, prior, admitted, enumerated, profile_requests,
                   rows, faults>>

\* get_allowed_schemas without the continue after report_dropped
get_allowed_schemas_without_continue ==
    /\ pc = "schemas"
    /\ IF schema_queue = <<>>
       THEN /\ Goto(AfterSchemaLoop)
            /\ UNCHANGED <<schema_queue, report>>
       ELSE LET schema == Head(schema_queue)
            IN  /\ schema_queue' = Tail(schema_queue)
                /\ report' = IF ~allowed(config.schema_pattern, schema)
                             THEN report_dropped(report, schema \o ".*")
                             ELSE report
                /\ Goto(Target("schema_container", "table", schema))
    /\ UNCHANGED <<rr, iterated, aside, variant, config, cur_list, seen, out, checkpoint, prior,
                   admitted, enumerated, profile_requests, rows, faults>>

get_allowed_schemas ==
    /\ pc = "schemas"
    /\ IF schema_queue = <<>>
       THEN /\ Goto(AfterSchemaLoop)
            /\ UNCHANGED <<schema_queue, report>>
       ELSE LET schema == Head(schema_queue)
            IN  /\ schema_queue' = Tail(schema_queue)
                /\ IF ~allowed(config.schema_pattern, schema)
                   THEN /\ report' = report_dropped(report, schema \o ".*")
                        /\ UNCHANGED <<pc, kind, cur_schema>>
                   ELSE /\ Goto(Target("schema_container", "table", schema))
                        /\ UNCHANGED report
    /\ UNCHANGED <<rr, iterated, aside, variant, config, cur_list, seen, out, checkpoint, prior, admitted,
                   enumerated, profile_requests, rows, faults>>

\* the schema container of the current schema; get_schema_properties (VerticaSource)
\* catches its exception, gen_containers is called outside every try
gen_schema_containers ==
    /\ pc = "schema_container"
    /\ \E fault \in {"none", "get_schema_properties", "gen_containers"} :
          /\ fault # "none" => faults < MaxFaults
          /\ fault = "get_schema_properties" => variant = "sql"
          /\ Answer(Question("gen_schema_containers", cur_schema, "", <<>>), fault)
          /\ faults' = IF fault = "none" THEN faults ELSE faults + 1
          /\ report' =
                IF fault = "get_schema_properties"
                THEN report_failure(report, get_db_name \o "." \o cur_schema,
                                    "unable to get extra_properties")
                ELSE report
          /\ IF fault = "gen_containers"
             THEN /\ Goto(Target("aborted", "table", cur_schema))
                  /\ UNCHANGED out
             ELSE /\ Goto(Target("enum", "table", cur_schema))
                  /\ out' = out \o gen_containers(
                                      schema_container_urn(get_db_name, cur_schema),
                                      cur_schema,
                                      database_container_urn(get_db_name))
    /\ UNCHANGED <<iterated, aside, variant, config, schema_queue, cur_list, seen, checkpoint, prior,
                   admitted, enumerated, profile_requests, rows>>


LineageOutcomes(k) == IF HasLineage(k) THEN {"found", "none"} ELSE {"none"}

ColumnFaults(k) == IF HasLocalColumnExcept(k) THEN BOOLEAN ELSE {FALSE}

\* the loop goes to its next name, or returns when none is left or when the
\* exception reached the outer except
Advance(k, rest, dataset_name, broke, newseen) ==
    IF broke \/ rest = <<>>
    THEN /\ Goto(After(k))
         /\ cur_list' = <<>>
         /\ seen' = {}
         /\ iterated' = {}
    ELSE /\ UNCHANGED <<pc, kind, cur_schema>>
         /\ cur_list' = rest
         /\ seen' = newseen
         /\ iterated' = iterated \cup {dataset_name}

\* get_workunits tests include_<kind>; the loop asks the inspector for the names
\* of the schema (and, in VerticaSource, for the columns, keys, properties and
\* owners of the whole schema) inside its outer try
LoopBegin(k) ==
    /\ pc = "enum"
    /\ kind = k
    /\ IF ~IncludeFlag(k)
       THEN /\ Goto(After(k))
            /\ UNCHANGED <<cur_list, seen, iterated, report, enumerated, rows, faults, rr>>
       ELSE \E names \in SeqsUpTo(NamesOf(k), MaxEntities - rows), raised \in BOOLEAN :
               /\ raised => (faults < MaxFaults /\ names = <<>>)
               /\ Answer(Question("names", cur_schema, k, <<>>), <<names, raised>>)
               /\ enumerated' = enumerated \cup {<<cur_schema, k>>}
               /\ rows' = rows + Len(names)
               /\ faults' = IF raised THEN faults + 1 ELSE faults
               /\ report' =
                     IF raised
                     THEN report_failure(report, cur_schema, ErrorReason(k))
                     ELSE report
               /\ IF names = <<>>
                  THEN /\ Goto(After(k))
                       /\ UNCHANGED <<cur_list, seen, iterated>>
                  ELSE /\ pc' = "entity"
                       /\ UNCHANGED <<kind, cur_schema>>
                       /\ cur_list' = names
                       /\ seen' = {}
                       /\ iterated' = {}
    /\ UNCHANGED <<aside, variant, config, schema_queue, out, checkpoint, prior, admitted,
                   profile_requests>>


Admitted(k, schema, name, dataset_name) ==
    [kind |-> k, schema |-> schema, name |-> name, dataset_name |-> dataset_name,
     urn |-> make_dataset_urn(dataset_name), at |-> Len(out)]

\* one iteration of the loop of kind k: duplicate check, report_entity_scanned,
\* pattern check, then the processing of the admitted entity
LoopEntity(k) ==
    /\ pc = "entity"
    /\ kind = k
    /\ LET name == Head(cur_list)
           rest == Tail(cur_list)
           dataset_name == get_identifier(IdentifierSchema(k, cur_schema), name)
           newseen == IF HasDuplicateCheck(k) THEN seen \cup {dataset_name} ELSE seen
       IN  IF HasDuplicateCheck(k) /\ dataset_name \in seen
           THEN /\ Advance(k, rest, dataset_name, FALSE, seen)
                /\ UNCHANGED <<report, out, checkpoint, admitted, faults, rr>>
           ELSE IF ~allowed(PatternOf(k), dataset_name)
           THEN /\ report' = report_dropped(report_entity_scanned(report, EntType(k)),
                                            dataset_name)
                /\ Advance(k, rest, dataset_name, FALSE, newseen)
                /\ UNCHANGED <<out, checkpoint, admitted, faults, rr>>
           ELSE \E lin \in LineageOutcomes(k), colfault \in ColumnFaults(k) :
                   LET blocks == EntityBlocks(k, cur_schema, name, dataset_name, lin, colfault)
                       budget == MaxFaults - faults - (IF colfault THEN 1 ELSE 0)
                   IN  /\ budget >= 0
                       /\ \E f \in FaultChoices(blocks, budget) :
                             LET r == RunBlocks(blocks, f, 1,
                                         [emits |-> <<>>, adds |-> {},
                                          rep |-> report_entity_scanned(report, EntType(k)),
                                          broke |-> FALSE])
                                 raised == Cardinality({b \in 1..Len(blocks) : f[b] # 0})
                                           + (IF colfault THEN 1 ELSE 0)
                             IN  /\ Answer(Question("entity", cur_schema, k, cur_list),
                                           <<lin, colfault, f>>)
                                 /\ report' =
                                       IF r.broke
                                       THEN report_failure(r.rep, cur_schema, ErrorReason(k))
                                       ELSE r.rep
                                 /\ out' = out \o r.emits
                                 /\ checkpoint' = checkpoint \cup r.adds
                                 /\ admitted' = Append(admitted,
                                                       Admitted(k, cur_schema, name, dataset_name))
                                 /\ faults' = faults + raised
                                 /\ Advance(k, rest, dataset_name, r.broke, newseen)
    /\ UNCHANGED <<aside, variant, config, schema_queue, prior, enumerated, profile_requests, rows>>

loop_tables == LoopBegin("table") \/ LoopEntity("table")

loop_views == LoopBegin("view") \/ LoopEntity("view")

loop_projections == LoopBegin("projection") \/ LoopEntity("projection")

loop_models == LoopBegin("models") \/ LoopEntity("models")

loop_Oauth == LoopBegin("OAuth") \/ LoopEntity("OAuth")

\* AllowDenyPattern.allow_all(): config.profile_pattern is left at its default
profile_pattern == allow_all

\* Vertica_SQLAlchemySource asks the projection pattern too
is_dataset_eligible_for_profiling(dataset_name) ==
    /\ allowed(config.table_pattern, dataset_name)
    /\ allowed(profile_pattern, dataset_name)
    /\ variant = "common" => allowed(config.projection_pattern, dataset_name)

RECURSIVE Requests(_, _, _)
\* the requests one enumeration yields: eligible names, each once
Requests(schema, names, requested) ==
    IF names = <<>>
    THEN <<>>
    ELSE LET dataset_name == get_identifier(schema, Head(names))
         IN  IF is_dataset_eligible_for_profiling(dataset_name) /\ dataset_name \notin requested
             THEN <<dataset_name>>
                  \o Requests(schema, Tail(names), requested \cup {dataset_name})
             ELSE Requests(schema, Tail(names), requested)

\* a request collection that hands the requests of each schema to the profiler
\* at once
loop_profiler_requests_then_profile ==
    /\ pc = "profile_requests"
    /\ \E tables \in SeqsUpTo(EntityNames, MaxEntities - rows), raised \in BOOLEAN :
          \E projections \in SeqsUpTo(EntityNames, MaxEntities - rows - Len(tables)) :
             /\ raised => (faults < MaxFaults /\ tables = <<>> /\ projections = <<>>)
             /\ Answer(Question("profile", cur_schema, "", <<>>),
                       <<tables, raised, projections>>)
             /\ enumerated' = enumerated \cup {<<cur_schema, "profile">>}
             /\ rows' = rows + Len(tables) + Len(projections)
             /\ faults' = IF raised THEN faults + 1 ELSE faults
             /\ IF raised
                THEN /\ Goto(Target("aborted", "table", cur_schema))
                     /\ UNCHANGED profile_requests
                ELSE /\ Goto(Target("profiler", "table", cur_schema))
                     /\ profile_requests' =
                           profile_requests
                           \o Requests(cur_schema, tables, {})
                           \o Requests(cur_schema, projections, {})
    /\ UNCHANGED <<iterated, aside, variant, config, schema_queue, cur_list, seen, report, out,
                   checkpoint, prior, admitted>>

\* profile_requests += list(loop_profiler_requests(...)): the tables, then the
\* projections of the schema are enumerated again; nothing catches what they raise
loop_profiler_requests ==
    /\ pc = "profile_requests"
    /\ \E tables \in SeqsUpTo(EntityNames, MaxEntities - rows), raised \in BOOLEAN :
          \E projections \in SeqsUpTo(EntityNames, MaxEntities - rows - Len(tables)) :
             /\ raised => (faults < MaxFaults /\ tables = <<>> /\ projections = <<>>)
             /\ Answer(Question("profile", cur_schema, "", <<>>),
                       <<tables, raised, projections>>)
             /\ enumerated' = enumerated \cup {<<cur_schema, "profile">>}
             /\ rows' = rows + Len(tables) + Len(projections)
             /\ faults' = IF raised THEN faults + 1 ELSE faults
             /\ IF raised
                THEN /\ Goto(Target("aborted", "table", cur_schema))
                     /\ UNCHANGED profile_requests
                ELSE /\ Goto(Target("schemas", "table", cur_schema))
                     /\ profile_requests' =
                           profile_requests
                           \o Requests(cur_schema, tables, {})
                           \o Requests(cur_schema, projections, {})
    /\ UNCHANGED <<iterated, aside, variant, config, schema_queue, cur_list, seen, report, out,
                   checkpoint, prior, admitted>>

\* loop_profiler: one datasetProfile work unit per request
loop_profiler ==
    /\ pc = "profiler"
    /\ out' = out \o [i \in 1..Len(profile_requests) |->
                        WorkUnit("profile-" \o profile_requests[i],
                                 make_dataset_urn(profile_requests[i]),
                                 <<"datasetProfile">>, "")]
    /\ Goto(AfterProfiler)
    /\ UNCHANGED <<rr, iterated, aside, variant, config, schema_queue, cur_list, seen, report, checkpoint,
                   prior, admitted, enumerated, profile_requests, rows, faults>>


(***************************************************************************)
(* Stale-entity removal.                                                   *)
(***************************************************************************)
\* SQLAlchemyStatefulIngestionConfig._entity_types: the entity types the stale
\* entity removal is configured with
_entity_types == {"assertion", "container", "table", "view", "Projection", "models", "Outh"}

\* add_entity_to_state keeps <<type, urn>>; the checkpoints an earlier run may
\* have left, and none at all on the first run
PriorCheckpoints ==
    {NoCheckpoint}
    \cup {[exists |-> TRUE, entities |-> E] :
            E \in {{},
                   {<<"table", make_dataset_urn("s1.a")>>},
                   {<<"table", make_dataset_urn("s1.a")>>,
                    <<"view", make_dataset_urn("s1.a")>>},
                   {<<"table", make_dataset_urn("s1.b")>>,
                    <<"projection", make_dataset_urn("s2.a")>>}}}

RECURSIVE SetToSeq(_)
SetToSeq(S) ==
    IF S = {} THEN <<>>
    ELSE LET x == CHOOSE y \in S : TRUE
         IN  <<x>> \o SetToSeq(S \ {x})

\* the soft-delete work unit of one stale entity
SoftDeleteWU(entry) ==
    WorkUnit("soft-delete-" \o entry[1] \o "-" \o entry[2], entry[2], <<"status-removed">>, "")

\* StaleEntityRemovalHandler.gen_removed_entity_workunits: nothing without a last
\* checkpoint; else one soft delete per entity of the last state, by type, that
\* the current state lacks
gen_removed_entity_workunits(last, current) ==
    IF ~last.exists
    THEN <<>>
    ELSE LET stale == SetToSeq(last.entities \ current)
         IN  [i \in 1..Len(stale) |-> SoftDeleteWU(stale[i])]

\* the clean-up with the handler comparing against an empty current state
CleanUpAgainstEmptyState ==
    /\ pc = "stale"
    /\ \E last \in PriorCheckpoints :
          /\ Answer(Question("last_checkpoint", "", "", <<>>), last)
          /\ prior' = last
          /\ out' = out \o gen_removed_entity_workunits(last, {})
    /\ pc' = "done"
    /\ UNCHANGED <<iterated, aside, variant, config, kind, schema_queue, cur_schema, cur_list,
                   seen, report, checkpoint, admitted, enumerated, profile_requests,
                   rows, faults>>

\* a clean-up that runs before the loop over the OAuth entries
CleanUpBeforeOauth ==
    /\ pc = "stale"
    /\ \E last \in PriorCheckpoints :
          /\ Answer(Question("last_checkpoint", "", "", <<>>), last)
          /\ prior' = last
          /\ out' = out \o gen_removed_entity_workunits(last, checkpoint)
    /\ Goto(Target("enum", "OAuth", EntitiesSchema))
    /\ UNCHANGED <<iterated, aside, variant, config, schema_queue, cur_list, seen,
                   report, checkpoint, admitted, enumerated, profile_requests,
                   rows, faults>>

\* the last statement of Vertica_SQLAlchemySource.get_workunits
CleanUpStaleEntities ==
    /\ pc = "stale"
    /\ \E last \in PriorCheckpoints :
          /\ Answer(Question("last_checkpoint", "", "", <<>>), last)
          /\ prior' = last
          /\ out' = out \o gen_removed_entity_workunits(last, checkpoint)
    /\ pc' = "done"
    /\ UNCHANGED <<iterated, aside, variant, config, kind, schema_queue, cur_schema, cur_list, seen,
                   report, checkpoint, admitted, enumerated, profile_requests,
                   rows, faults>>

(***************************************************************************)
(* The type mapper: VerticaDialect._get_column_info (base.py) turns the     *)
(* data_type of a catalog row into a SQLAlchemy type, get_column_type       *)
(* (common.py) turns that into a type of the taxonomy.                      *)
(* A format_type is the text before the parenthesis and the comma-separated *)
(* texts inside it: numeric(10,2) is [base |-> "numeric", args |-> <<"10",  *)
(* "2">>].                                                                  *)
(***************************************************************************)
\* data_type values of the catalog, lower-cased by get_columns
BaseNames ==
    {"int", "integer", "bigint", "numeric", "decimal", "varchar", "char", "float",
     "boolean", "date", "timestamp", "timestamptz", "time", "timetz", "interval",
     "geography", "uuid"}

ArgLists == {<<>>, <<"10">>, <<"10", "2">>, <<"POINT">>}

ColumnNames == {"c1", "c2"}

\* str.upper() on the names above
Upper(str) ==
    CASE str = "int" -> "INT"
      [] str = "integer" -> "INTEGER"
      [] str = "bigint" -> "BIGINT"
      [] str = "numeric" -> "NUMERIC"
      [] str = "decimal" -> "DECIMAL"
      [] str = "varchar" -> "VARCHAR"
      [] str = "char" -> "CHAR"
      [] str = "float" -> "FLOAT"
      [] str = "boolean" -> "BOOLEAN"
      [] str = "date" -> "DATE"
      [] str = "timestamp" -> "TIMESTAMP"
      [] str = "timestamptz" -> "TIMESTAMPTZ"
      [] str = "time" -> "TIME"
      [] str = "timetz" -> "TIMETZ"
      [] str = "interval" -> "INTERVAL"
      [] str = "geography" -> "GEOGRAPHY"
      [] str = "uuid" -> "UUID"

\* an entry of ischema_names: a type class, or an instance of one
Class(cls) == [cls |-> cls, instance |-> FALSE]
Instance(cls) == [cls |-> cls, instance |-> TRUE]

ischema_names ==
    [key \in {"INT", "INTEGER", "INT8", "BIGINT", "SMALLINT", "TINYINT", "CHAR", "VARCHAR",
              "VARCHAR2", "TEXT", "NUMERIC", "DECIMAL", "NUMBER", "MONEY", "FLOAT", "FLOAT8",
              "REAL", "DOUBLE", "TIMESTAMP", "TIMESTAMP WITH TIMEZONE", "TIMESTAMPTZ", "TIME",
              "TIME WITH TIMEZONE", "TIMETZ", "INTERVAL", "DATE", "DATETIME", "SMALLDATETIME",
              "BINARY", "VARBINARY", "RAW", "BYTEA", "BOOLEAN", "LONG VARBINARY",
              "LONG VARCHAR", "GEOMETRY"} |->
        CASE key \in {"INT", "INTEGER", "INT8"} -> Class("INTEGER")
          [] key = "BIGINT" -> Class("BIGINT")
          [] key \in {"SMALLINT", "TINYINT"} -> Class("SMALLINT")
          [] key = "CHAR" -> Class("CHAR")
          [] key \in {"VARCHAR", "VARCHAR2", "TEXT", "LONG VARCHAR"} -> Class("VARCHAR")
          [] key \in {"NUMERIC", "DECIMAL", "NUMBER", "MONEY"} -> Class("NUMERIC")
          [] key \in {"FLOAT", "FLOAT8"} -> Class("FLOAT")
          [] key = "REAL" -> Class("REAL")
          [] key = "DOUBLE" -> Class("DOUBLE_PRECISION")
          [] key \in {"TIMESTAMP", "TIMESTAMP WITH TIMEZONE"} -> Class("TIMESTAMP")
          [] key = "TIMESTAMPTZ" -> Instance("TIMESTAMP")
          [] key \in {"TIME", "TIME WITH TIMEZONE"} -> Class("TIME")
          [] key = "TIMETZ" -> Instance("TIME")
          [] key = "INTERVAL" -> Class("INTERVAL")
          [] key = "DATE" -> Class("DATE")
          [] key \in {"DATETIME", "SMALLDATETIME"} -> Class("DATETIME")
          [] key \in {"BINARY", "VARBINARY", "RAW", "LONG VARBINARY", "GEOMETRY"} -> Class("BLOB")
          [] key = "BYTEA" -> Class("BYTEA")
          [] key = "BOOLEAN" -> Class("BOOLEAN")]

\* \d+ matches the text
IsDigits(text) == text \in {"10", "2"}

\* re.search(r"\(([\d,]+)\)", format_type): the texts between the commas when
\* the parenthesis holds digits and commas only; <<>> stands for None
CharLen(format_type) ==
    IF format_type.args # <<>> /\ \A i \in DOMAIN format_type.args : IsDigits(format_type.args[i])
    THEN format_type.args
    ELSE <<>>

\* positional parameters the constructor of a type class takes
MaxPositional(cls) ==
    CASE cls \in {"INTEGER", "BIGINT", "SMALLINT", "DATE"} -> 0
      [] cls \in {"TIMESTAMP", "TIME", "DATETIME", "BLOB", "BYTEA"} -> 1
      [] cls \in {"INTERVAL"} -> 2
      [] cls \in {"FLOAT", "REAL", "DOUBLE_PRECISION", "BOOLEAN"} -> 3
      [] cls \in {"NUMERIC", "VARCHAR", "CHAR"} -> 4

\* keyword parameters the constructor of a type class takes, of those the mapper passes
Keywords(cls) ==
    CASE cls \in {"TIMESTAMP", "TIME", "DATETIME"} -> {"timezone"}
      [] cls = "INTERVAL" -> {"precision", "fields"}
      [] cls \in {"NUMERIC", "FLOAT", "REAL", "DOUBLE_PRECISION"} -> {"precision"}
      [] OTHER -> {}

ColumnInfo(coltype, py_warnings) ==
    [raised |-> FALSE, error |-> "", coltype |-> coltype, py_warnings |-> py_warnings]

Raised(error) == [raised |-> TRUE, error |-> error, coltype |-> "", py_warnings |-> <<>>]

\* coltype(*args, **kwargs)
Construct(entry, nargs, kwargs) ==
    IF entry.instance
    THEN Raised("TypeError: object is not callable")
    ELSE IF nargs > MaxPositional(entry.cls)
    THEN Raised("TypeError: too many positional arguments")
    ELSE IF ~(kwargs \subseteq Keywords(entry.cls))
    THEN Raised("TypeError: unexpected keyword argument")
    ELSE ColumnInfo(entry.cls, <<>>)

\* int() of the digit texts above
ToInt(text) == CASE text = "10" -> 10 [] text = "2" -> 2

\* the positional arguments _get_column_info hands to the type class, where the
\* if/elif chain does not raise
column_args(format_type) ==
    LET attype == format_type.base
        charlen == CharLen(format_type)
    IN  IF attype = "numeric"
        THEN IF Len(charlen) = 2 THEN <<ToInt(charlen[1]), ToInt(charlen[2])>> ELSE <<>>
        ELSE IF attype \in {"integer", "timestamptz", "timetz", "timestamp", "time", "interval"}
        THEN <<>>
        ELSE IF Len(charlen) = 1
        THEN <<ToInt(charlen[1])>>
        ELSE format_type.args

\* VerticaDialect._get_column_info
get_column_info(name, format_type) ==
    LET attype == format_type.base
        charlen == CharLen(format_type)
        \* int(charlen) succeeds on one run of digits only
        int_fails == charlen # <<>> /\ Len(charlen) # 1
        precision == IF charlen # <<>> THEN {"precision"} ELSE {}
        \* args and kwargs after the if/elif chain, or the exception it raised
        parsed ==
            IF attype = "numeric"
            THEN IF charlen # <<>>
                 THEN IF Len(charlen) = 2
                      THEN [raised |-> FALSE, nargs |-> 2, kwargs |-> {}]
                      ELSE [raised |-> TRUE, nargs |-> 0, kwargs |-> {}]
                 ELSE [raised |-> FALSE, nargs |-> 0, kwargs |-> {}]
            ELSE IF attype = "integer"
            THEN [raised |-> FALSE, nargs |-> 0, kwargs |-> {}]
            ELSE IF attype \in {"timestamptz", "timetz", "timestamp", "time"}
            THEN [raised |-> int_fails, nargs |-> 0, kwargs |-> {"timezone"} \cup precision]
            ELSE IF attype = "interval"
            THEN [raised |-> int_fails, nargs |-> 0, kwargs |-> precision]
            ELSE IF charlen # <<>>
            THEN [raised |-> int_fails, nargs |-> 1, kwargs |-> {}]
            ELSE [raised |-> FALSE, nargs |-> Len(format_type.args), kwargs |-> {}]
    IN  IF parsed.raised
        THEN Raised("ValueError")
        ELSE IF Upper(attype) \in DOMAIN ischema_names
        THEN Construct(ischema_names[Upper(attype)], parsed.nargs, parsed.kwargs)
        ELSE ColumnInfo("NULLTYPE",
                        <<"Did not recognize type '" \o attype \o "' of column '" \o name \o "'">>)

\* the first key of _field_type_mapping the column type is an instance of
field_type_mapping(coltype) ==
    CASE coltype \in {"INTEGER", "BIGINT", "SMALLINT"} -> "NumberTypeClass"
      [] coltype \in {"NUMERIC", "FLOAT", "REAL", "DOUBLE_PRECISION"} -> "NumberTypeClass"
      [] coltype = "BOOLEAN" -> "BooleanTypeClass"
      [] coltype \in {"BLOB", "BYTEA"} -> "BytesTypeClass"
      [] coltype \in {"VARCHAR", "CHAR"} -> "StringTypeClass"
      [] coltype = "DATE" -> "DateTypeClass"
      [] coltype \in {"TIME", "DATETIME", "TIMESTAMP", "INTERVAL"} -> "TimeTypeClass"
      [] coltype = "NULLTYPE" -> "NullTypeClass"
      [] OTHER -> "None"

known_unknown_field_types == {"Interval", "CLOB"}

\* get_column_type: the taxonomy type and the warnings of the scan report after it
get_column_type(sql_report, dataset_name, column_type) ==
    IF field_type_mapping(column_type) # "None"
    THEN [type |-> field_type_mapping(column_type), warnings |-> sql_report]
    ELSE IF column_type \in known_unknown_field_types
    THEN [type |-> "NullTypeClass", warnings |-> sql_report]
    ELSE [type |-> "NullTypeClass",
          warnings |-> Append(sql_report,
                              [key |-> dataset_name,
                               reason |-> "unable to map type " \o column_type
                                          \o " to metadata schema"])]

\* the types of the taxonomy (SchemaFieldDataType)
Taxonomy ==
    {"NumberTypeClass", "BooleanTypeClass", "EnumTypeClass", "BytesTypeClass",
     "ArrayTypeClass", "StringTypeClass", "DateTypeClass", "TimeTypeClass",
     "RecordTypeClass", "NullTypeClass"}

\* a source of class Vertica_SQLAlchemySource whose get_workunits has not started
Constructed ==
    /\ variant = "common"
    /\ config = ParseConfig(DefaultRecipe)
    /\ pc = "start"
    /\ kind = "table"
    /\ schema_queue = SchemaNames
    /\ cur_schema = ""
    /\ cur_list = <<>>
    /\ seen = {}
    /\ iterated = {}
    /\ report = EmptyReport
    /\ out = <<>>
    /\ checkpoint = {}
    /\ prior = NoCheckpoint
    /\ admitted = <<>>
    /\ enumerated = {}
    /\ profile_requests = <<>>
    /\ rows = 0
    /\ faults = 0
    /\ rr = NoScript

\* one row of v_catalog.columns of table s1.a
TypeInit ==
    /\ Constructed
    /\ Idle({"lm", "reg", "cn", "dbt", "call"})
    /\ \E name \in ColumnNames, base \in BaseNames, args \in ArgLists :
          tm = [NoColumn EXCEPT !.pc = "row", !.dataset_name = "s1.a", !.name = name,
                                !.format_type = [base |-> base, args |-> args]]

\* get_columns hands the row to _get_column_info
get_columns ==
    /\ tm.pc = "row"
    /\ LET info == get_column_info(tm.name, tm.format_type)
       IN  tm' = IF info.raised
                 THEN [tm EXCEPT !.pc = "raised", !.error = info.error]
                 ELSE [tm EXCEPT !.pc = "column", !.coltype = info.coltype,
                                 !.py_warnings = info.py_warnings]
    /\ UNCHANGED <<crawl, lm, reg, cn, dbt, call>>

\* get_schema_fields_for_column hands the column's type to get_column_type
get_schema_fields_for_column ==
    /\ tm.pc = "column"
    /\ LET field == get_column_type(tm.warnings, tm.dataset_name, tm.coltype)
       IN  tm' = [tm EXCEPT !.pc = "mapped", !.field_type = field.type,
                            !.warnings = field.warnings]
    /\ UNCHANGED <<crawl, lm, reg, cn, dbt, call>>

TypeNext == get_columns \/ get_schema_fields_for_column

TypeSpec == TypeInit /\ [][TypeNext]_vars

(***************************************************************************)
(* View lineage of Vertica_SQLAlchemySource: _populate_view_lineage builds *)
(* self._lineage_map from v_catalog.view_tables, _get_upstream_lineage_info *)
(* reads the lineage record of one view off it.                            *)
(***************************************************************************)
\* rows of v_catalog.view_tables the engine returns to one query
MaxRefRows == 3

ViewNames == {"v1", "V2"}

\* views whose lineage one source object is asked for
MaxViews == 2

BaseTableNames == {"t1", "t2"}

\* v_catalog.view_tables: one row per view and object the view references
ViewTablesRows ==
    [table_schema : Range(SchemaNames), table_name : ViewNames,
     reference_table_schema : {"s1"}, reference_table_name : BaseTableNames]

\* the contents of v_catalog.view_tables, in the order the engine returns rows
ViewTables ==
    {vt \in SeqsUpTo(ViewTablesRows, MaxRefRows) :
        \A i, j \in DOMAIN vt : i # j => vt[i] # vt[j]}

\* f"{schema}.{name}".lower()
LowerQualified(schema, name) == get_identifier(Lower(schema), Lower(name))

\* select reference_table_name from v_catalog.view_tables where table_name = view;
\* the loop keeps the reference of the last row
get_refrence_table(view_tables, view) ==
    LET found == SelectSeq(view_tables, LAMBDA row : row.table_name = view)
    IN  IF found = <<>> THEN "" ELSE found[Len(found)].reference_table_name

\* select reference_table_name, reference_table_schema ... where table_name = view
view_upstream_lineage_query(view_tables, view) ==
    SelectSeq(view_tables, LAMBDA row : row.table_name = view)

\* select table_name, table_schema ... where reference_table_name = refrence_table
view_downstream_query(view_tables, refrence_table) ==
    SelectSeq(view_tables, LAMBDA row : row.reference_table_name = refrence_table)

\* the appends of the nested loops: for every downstream row, every upstream row
LineageAppends(downstreams, upstreams) ==
    [i \in 1..(Len(downstreams) * Len(upstreams)) |->
        LET d == downstreams[((i - 1) \div Len(upstreams)) + 1]
            u == upstreams[((i - 1) % Len(upstreams)) + 1]
        IN  [view_name |-> LowerQualified(d.table_schema, d.table_name),
             view_upstream |-> LowerQualified(u.reference_table_schema,
                                              u.reference_table_name)]]

\* self._lineage_map[key] of a defaultdict(list)
LineageOf(lineage_map, key) ==
    LET entries == SelectSeq(lineage_map, LAMBDA e : e.view_name = key)
    IN  [i \in 1..Len(entries) |-> entries[i].view_upstream]

\* a view of a schema whose lineage is asked for, over some view_tables
LineageInit ==
    /\ Constructed
    /\ Idle({"tm", "reg", "cn", "dbt", "call"})
    /\ \E vt \in ViewTables, schema \in Range(SchemaNames), view \in ViewNames :
          lm = [NoRequest EXCEPT !.pc = "request", !.view_tables = vt,
                                 !.schema = schema, !.view = view, !.asked = 1]

\* _populate_view_lineage(view): a query that raises before the try raises to
\* the caller, one that raises inside it leaves the new, empty map and is reported
populate_view_lineage ==
    /\ lm.pc = "request"
    /\ \E fault \in {"none", "get_refrence_table", "view_downstream_query"} :
          LET refrence_table == get_refrence_table(lm.view_tables, lm.view)
              downstreams == view_downstream_query(lm.view_tables, refrence_table)
              upstreams == view_upstream_lineage_query(lm.view_tables, lm.view)
          IN  lm' = CASE fault = "get_refrence_table" ->
                           [lm EXCEPT !.pc = "raised", !.error = "get_refrence_table"]
                      [] fault = "view_downstream_query" ->
                           [lm EXCEPT !.pc = "populated", !.assigned = TRUE,
                                      !.built_for = <<lm.schema, lm.view>>,
                                      !.lineage_map = <<>>,
                                      !.warnings = Append(@, "view_upstream_lineage")]
                      [] OTHER ->
                           [lm EXCEPT !.pc = "populated", !.assigned = TRUE,
                                      !.built_for = <<lm.schema, lm.view>>,
                                      !.lineage_map = LineageAppends(downstreams, upstreams)]
    /\ UNCHANGED <<crawl, tm, reg, cn, dbt, call>>

\* Vertica_SQLAlchemySource._get_upstream_lineage_info(dataset_urn, view): the
\* read of self._lineage_map raises while nothing has assigned it; else one
\* upstream per entry of the view's list, None (<<>>) for an empty list
get_upstream_lineage_info ==
    /\ lm.pc \in {"request", "populated"}
    /\ lm' = IF ~lm.assigned
             THEN [lm EXCEPT !.pc = "raised", !.error = "AttributeError"]
             ELSE LET dataset_name == get_identifier(lm.schema, lm.view)
                      lineage == LineageOf(lm.lineage_map, dataset_name)
                  IN  [lm EXCEPT !.pc = "resolved",
                                 !.upstreams = [i \in 1..Len(lineage) |->
                                                   make_dataset_urn(lineage[i])]]
    /\ UNCHANGED <<crawl, tm, reg, cn, dbt, call>>

\* loop_views, next iteration: the lineage of the next view (of this schema or
\* of a later one) is asked of the same source object, whose map stays as it is
loop_views_lineage ==
    /\ lm.pc = "resolved"
    /\ lm.asked < MaxViews
    /\ \E schema \in Range(SchemaNames), view \in ViewNames :
          /\ <<schema, view>> # <<lm.schema, lm.view>>
          /\ lm' = [lm EXCEPT !.pc = "request", !.schema = schema, !.view = view,
                              !.upstreams = <<>>, !.asked = @ + 1]
    /\ UNCHANGED <<crawl, tm, reg, cn, dbt, call>>

LineageNext ==
    populate_view_lineage \/ get_upstream_lineage_info \/ loop_views_lineage

LineageSpec == LineageInit /\ [][LineageNext]_vars

Next ==
    \/ gen_database_containers
    \/ get_allowed_schemas
    \/ gen_schema_containers
    \/ loop_tables
    \/ loop_views
    \/ loop_projections
    \/ loop_models
    \/ loop_profiler_requests
    \/ loop_profiler
    \/ loop_Oauth
    \/ CleanUpStaleEntities

Spec == Init /\ [][Next]_vars

(***************************************************************************)
(* The type tables of common.py, _field_type_mapping and                   *)
(* _known_unknown_field_types, are module-level objects: every crawl       *)
(* context of the process registers into them and reads from them.         *)
(***************************************************************************)
Contexts == {"ctx1", "ctx2"}

\* engine-specific types made with make_sqlalchemy_type
CustomTypes == {"GEOGRAPHY", "UUID"}

\* the output argument of register_custom_type; "None" is the default
Outputs == {"StringTypeClass", "BytesTypeClass", "None"}

\* the column types a context asks about
AskedTypes == CustomTypes \cup {"VARCHAR", "NULLTYPE"}

\* get_column_type called by a context on the tables r: the type and whether
\* a warning is reported.  An engine-specific type is an instance of no type
\* the module defines, so only a registration matches it.
get_column_type_in(r, context, column_type) ==
    IF column_type \in CustomTypes
    THEN IF \E e \in r.field_type_mapping : e[1] = column_type
         THEN [type |-> (CHOOSE e \in r.field_type_mapping : e[1] = column_type)[2],
               warned |-> FALSE]
         ELSE IF column_type \in r.known_unknown_field_types
         THEN [type |-> "NullTypeClass", warned |-> FALSE]
         ELSE [type |-> "NullTypeClass", warned |-> TRUE]
    ELSE LET field == get_column_type(<<>>, "s1.a", column_type)
         IN  [type |-> field.type, warned |-> field.warnings # <<>>]

RegistryInit ==
    /\ Constructed
    /\ Idle({"tm", "lm", "cn", "dbt", "call"})
    /\ reg = NoRegistry

\* register_custom_type(tp, output) called by a context
register_custom_type(context, tp, output) ==
    /\ <<context, tp>> \notin reg.registered
    /\ reg' = IF output # "None"
              THEN [reg EXCEPT !.field_type_mapping =
                                   {e \in @ : e[1] # tp} \cup {<<tp, output>>},
                               !.registered = @ \cup {<<context, tp>>}]
              ELSE [reg EXCEPT !.known_unknown_field_types = @ \cup {tp},
                               !.registered = @ \cup {<<context, tp>>}]
    /\ UNCHANGED <<crawl, tm, lm, cn, dbt, call>>

\* a context normalises the type of a column
normalise_in(context, column_type) ==
    /\ reg' = [reg EXCEPT !.asked =
                  <<context, column_type, get_column_type_in(reg, context, column_type)>>]
    /\ UNCHANGED <<crawl, tm, lm, cn, dbt, call>>

RegistryNext ==
    \/ \E context \in Contexts, tp \in CustomTypes, output \in Outputs :
          register_custom_type(context, tp, output)
    \/ \E context \in Contexts, column_type \in AskedTypes :
          normalise_in(context, column_type)

RegistrySpec == RegistryInit /\ [][RegistryNext]_vars

(***************************************************************************)
(* Engines and connections of one run of Vertica_SQLAlchemySource.  Every  *)
(* call of get_inspectors makes an engine and yields an inspector from     *)
(* inside "with engine.connect()": the connection goes back to the         *)
(* engine's pool when the generator is resumed or closed.  No statement of *)
(* the source disposes of an engine.  A generator that an exception or a   *)
(* stop leaves suspended is closed when it is collected, which the source  *)
(* does not control.                                                       *)
(***************************************************************************)
ConnInit ==
    /\ Constructed
    /\ Idle({"tm", "lm", "reg", "dbt", "call"})
    /\ cn = [NoEngines EXCEPT !.pc = "start", !.schema_queue = SchemaNames]

\* one "for inspector in self.get_inspectors()" of a key generation: the loop
\* runs to its end, or its body raises and leaves the generator suspended
KeyInspectors(c, engine, raised, collected) ==
    [c EXCEPT !.engines = @ \cup {engine},
              !.pool = IF ~raised \/ collected THEN @ \cup {engine} ELSE @,
              !.checked_out = IF raised /\ ~collected THEN @ \cup {engine} ELSE @]

\* get_workunits enters its loop over get_inspectors
conn_get_inspectors ==
    /\ cn.pc = "start"
    /\ cn' = [cn EXCEPT !.pc = "database",
                        !.engines = @ \cup {<<"get_workunits", "">>},
                        !.checked_out = @ \cup {<<"get_workunits", "">>}]
    /\ UNCHANGED <<crawl, tm, lm, reg, dbt, call>>

\* gen_database_containers: gen_database_key
conn_gen_database_containers ==
    /\ cn.pc = "database"
    /\ \E raised \in BOOLEAN, collected \in BOOLEAN :
          /\ collected => raised
          /\ cn' = [KeyInspectors(cn, <<"gen_database_key", "">>, raised, collected)
                       EXCEPT !.pc = "schemas"]
    /\ UNCHANGED <<crawl, tm, lm, reg, dbt, call>>

\* gen_schema_containers of the next schema: gen_schema_key, gen_database_key
conn_gen_schema_containers ==
    /\ cn.pc = "schemas"
    /\ cn.schema_queue # <<>>
    /\ LET schema == Head(cn.schema_queue)
       IN  \E raised1 \in BOOLEAN, collected1 \in BOOLEAN,
              raised2 \in BOOLEAN, collected2 \in BOOLEAN :
              /\ collected1 => raised1
              /\ collected2 => raised2
              /\ cn' = [KeyInspectors(
                           KeyInspectors(cn, <<"gen_schema_key", schema>>, raised1, collected1),
                           <<"gen_database_key", schema>>, raised2, collected2)
                          EXCEPT !.schema_queue = Tail(@)]
    /\ UNCHANGED <<crawl, tm, lm, reg, dbt, call>>

\* an exception leaves get_workunits, or the consumer stops between two
\* schemas: the generator of get_inspectors stays suspended inside its "with"
conn_leave(how) ==
    /\ cn.pc = "schemas"
    /\ \E collected \in BOOLEAN :
          cn' = [cn EXCEPT !.pc = how,
                           !.checked_out = IF collected
                                           THEN @ \ {<<"get_workunits", "">>} ELSE @,
                           !.pool = IF collected
                                    THEN @ \cup {<<"get_workunits", "">>} ELSE @]
    /\ UNCHANGED <<crawl, tm, lm, reg, dbt, call>>

\* the loop over get_inspectors ends: the generator is resumed and leaves its
\* "with"
conn_finish ==
    /\ cn.pc = "schemas"
    /\ cn.schema_queue = <<>>
    /\ cn' = [cn EXCEPT !.pc = "done",
                        !.checked_out = @ \ {<<"get_workunits", "">>},
                        !.pool = @ \cup {<<"get_workunits", "">>}]
    /\ UNCHANGED <<crawl, tm, lm, reg, dbt, call>>

\* Vertica_SQLAlchemySource.close
conn_close ==
    /\ cn.pc \in {"done", "raised", "stopped"}
    /\ cn' = [cn EXCEPT !.pc = "closed"]
    /\ UNCHANGED <<crawl, tm, lm, reg, dbt, call>>

ConnNext ==
    \/ conn_get_inspectors
    \/ conn_gen_database_containers
    \/ conn_gen_schema_containers
    \/ conn_leave("raised")
    \/ conn_leave("stopped")
    \/ conn_finish
    \/ conn_close

ConnSpec == ConnInit /\ [][ConnNext]_vars

(***************************************************************************)
(* dbt: the name extract_dbt_entities gives a node of the manifest.        *)
(* A node is a dict; a key it lacks is Absent here, a key whose value is    *)
(* null is None.                                                            *)
(***************************************************************************)
Absent == "<absent>"

None == "<None>"

\* the nodes of a manifest
ManifestNodes ==
    [name : {"orders", "customers"},
     identifier : {Absent, "orders_src", "customers_src"},
     alias : {Absent, None, "orders_v2"},
     resource_type : {"model", "source", "seed", "test"}]

DbtInit ==
    /\ Constructed
    /\ Idle({"tm", "lm", "reg", "cn", "call"})
    /\ \E manifest_node \in ManifestNodes, use_identifiers \in BOOLEAN :
          dbt = [NoNode EXCEPT !.pc = "node", !.manifest_node = manifest_node,
                               !.use_identifiers = use_identifiers]

\* the assignments to name at the head of the loop of extract_dbt_entities
NodeName(manifest_node, use_identifiers) ==
    LET name1 == manifest_node.name
        name2 == IF manifest_node.identifier # Absent /\ use_identifiers
                 THEN manifest_node.identifier
                 ELSE name1
    IN  IF manifest_node.alias \notin {Absent, None} /\ manifest_node.resource_type # "test"
        THEN manifest_node.alias
        ELSE name2

\* one iteration of the loop of extract_dbt_entities
extract_dbt_entities ==
    /\ dbt.pc = "node"
    /\ dbt' = [dbt EXCEPT !.pc = "extracted",
                          !.name = NodeName(dbt.manifest_node, dbt.use_identifiers)]
    /\ UNCHANGED <<crawl, tm, lm, reg, cn, call>>

DbtNext == extract_dbt_entities

DbtSpec == DbtInit /\ [][DbtNext]_vars

(***************************************************************************)
(* MetadataWorkUnit.__init__ (api/workunit.py): a work unit is made from   *)
(* exactly one of mce, mcp and mcp_raw.  An argument is None or an object  *)
(* of its declared class, which is truthy.                                 *)
(***************************************************************************)
WorkUnitInit ==
    /\ Constructed
    /\ Idle({"tm", "lm", "reg", "cn", "dbt"})
    /\ \E id \in {"s1.a", "s1.b"}, mce \in {None, "mce1", "mce2"},
          mcp \in {None, "mcp1", "mcp2"}, mcp_raw \in {None, "raw1", "raw2"},
          treat_errors_as_warnings \in BOOLEAN :
          call = [pc |-> "call", id |-> id, mce |-> mce, mcp |-> mcp, mcp_raw |-> mcp_raw,
                  treat_errors_as_warnings |-> treat_errors_as_warnings,
                  metadata |-> None, error |-> ""]

\* a constructor that only refuses to make a work unit out of nothing
MetadataWorkUnitOfAny(mce, mcp, mcp_raw) ==
    IF Cardinality({v \in {mce, mcp, mcp_raw} : v # None}) = 0
    THEN [error |-> "ValueError", metadata |-> None]
    ELSE IF mcp_raw # None
    THEN [error |-> "", metadata |-> mcp_raw]
    ELSE IF mce # None
    THEN [error |-> "", metadata |-> mce]
    ELSE [error |-> "", metadata |-> mcp]

\* the body of __init__ after super().__init__: the exception it raises, if
\* any, and self.metadata
MetadataWorkUnit(mce, mcp, mcp_raw) ==
    LET truthy == <<IF mce # None THEN 1 ELSE 0, IF mcp # None THEN 1 ELSE 0,
                    IF mcp_raw # None THEN 1 ELSE 0>>
    IN  IF truthy[1] + truthy[2] + truthy[3] # 1
        THEN [error |-> "ValueError", metadata |-> None]
        ELSE IF mcp_raw # None
        THEN IF mce # None \/ mcp # None
             THEN [error |-> "AssertionError", metadata |-> None]
             ELSE [error |-> "", metadata |-> mcp_raw]
        ELSE IF mce # None /\ mcp = None
        THEN [error |-> "", metadata |-> mce]
        ELSE IF mcp # None /\ mce = None
        THEN [error |-> "", metadata |-> mcp]
        ELSE [error |-> "", metadata |-> None]

\* MetadataWorkUnit(id, mce, mcp, mcp_raw, treat_errors_as_warnings)
new_MetadataWorkUnit ==
    /\ call.pc = "call"
    /\ LET made == MetadataWorkUnit(call.mce, call.mcp, call.mcp_raw)
       IN  call' = [call EXCEPT !.pc = IF made.error = "" THEN "made" ELSE "raised",
                                !.error = made.error, !.metadata = made.metadata]
    /\ UNCHANGED <<crawl, tm, lm, reg, cn, dbt>>

WorkUnitNext == new_MetadataWorkUnit

WorkUnitSpec == WorkUnitInit /\ [][WorkUnitNext]_vars

(***************************************************************************)
(* VerticaSource: the loops fetch the columns of a whole schema once and    *)
(* pick the rows of each entity out of them.                               *)
(***************************************************************************)
\* rows of one schema-level column fetch
MaxColumns == 2

\* the rows inspector.get_all_columns (get_all_view_columns,
\* get_all_projection_columns) may return
ColumnRows == [tablename : EntityNames, name : ColumnNames]

ColumnsInit ==
    /\ Constructed
    /\ Idle({"tm", "lm", "reg", "cn", "dbt"})
    /\ \E k \in {"table", "view", "projection"}, name \in EntityNames,
          columns \in SeqsUpTo(ColumnRows, MaxColumns) :
          call = [pc |-> "call", kind |-> k, name |-> name, columns |-> columns,
                  finalcolumns |-> <<>>]

\* the inner "for column in columns" of the loop of kind k
finalcolumns(k, name, columns) ==
    IF k = "view"
    THEN SelectSeq(columns, LAMBDA column : Lower(column.tablename) = Lower(name))
    ELSE SelectSeq(columns, LAMBDA column : column.tablename = Lower(name))

\* one iteration of the loop of kind k up to get_schema_fields
loop_columns ==
    /\ call.pc = "call"
    /\ call' = [call EXCEPT !.pc = "fields",
                            !.finalcolumns = finalcolumns(call.kind, call.name, call.columns)]
    /\ UNCHANGED <<crawl, tm, lm, reg, cn, dbt>>

ColumnsNext == loop_columns

ColumnsSpec == ColumnsInit /\ [][ColumnsNext]_vars

(***************************************************************************)
(* The properties record of an entity: its display name and its custom     *)
(* properties.                                                              *)
(***************************************************************************)
\* raw names of the catalog, two of them with a dot in them
RawNames == {"a", "b", "x.a", "a.b"}

\* what get_table_properties (get_model_properties, ...) may return as properties
PropertyRows == {<<"create_time", "2023">>, <<"table_size", "1 KB">>}

\* dataset_name.split(".")[-1] of the dataset name schema.table
LastSegment(table) ==
    CASE table = "x.a" -> "a"
      [] table = "a.b" -> "b"
      [] OTHER -> table

PropertiesInit ==
    /\ Constructed
    /\ Idle({"tm", "lm", "reg", "cn", "dbt"})
    /\ \E v \in {"sql", "common"}, k \in {"table", "view", "projection", "model", "OAuth"},
          schema \in Range(SchemaNames), table \in RawNames,
          properties \in SUBSET PropertyRows :
          /\ k = "OAuth" => v = "common"
          /\ call = [pc |-> "call", variant |-> v, kind |-> k, schema |-> schema,
                     table |-> table, properties |-> properties,
                     name |-> "", customProperties |-> {}]

\* DatasetPropertiesClass(name=..., customProperties=...) as the loop of kind k
\* of the source class v builds it; an empty dict is falsy
dataset_properties(v, k, schema, table, properties) ==
    IF v = "common" /\ k # "view"
    THEN LET normalised_table == LastSegment(table)
         IN  [name |-> normalised_table,
              customProperties |->
                  IF properties # {} /\ normalised_table # table
                  THEN properties \cup {<<"original_table_name", table>>}
                  ELSE properties]
    ELSE [name |-> table, customProperties |-> properties]

\* the properties aspect appended to the snapshot of one entity
process_properties ==
    /\ call.pc = "call"
    /\ LET made == dataset_properties(call.variant, call.kind, call.schema,
                                      call.table, call.properties)
       IN  call' = [call EXCEPT !.pc = "made", !.name = made.name,
                                !.customProperties = made.customProperties]
    /\ UNCHANGED <<crawl, tm, lm, reg, cn, dbt>>

PropertiesNext == process_properties

PropertiesSpec == PropertiesInit /\ [][PropertiesNext]_vars

(***************************************************************************)
(* Two runs of one source over an unchanged catalog.                       *)
(***************************************************************************)
\* the recipes the two runs are made with
RunsRecipes ==
    {[DefaultRecipe EXCEPT !.include_views = FALSE],
     [DefaultRecipe EXCEPT !.profiling_enabled = TRUE]}

\* the first of two runs
RunsInit ==
    /\ Fresh
    /\ config \in {ParseConfig(r) : r \in RunsRecipes}
    /\ rr = [NoScript EXCEPT !.run = 1]

\* get_workunits is called again on the source the first run left behind: the
\* generator's locals start afresh, the attributes of the source (config,
\* report, the state of the stale-entity handler) are what the first run left
Rerun ==
    /\ rr.run = 1
    /\ pc \in {"done", "aborted"}
    /\ rr' = [rr EXCEPT !.run = 2, !.first = out, !.first_pc = pc]
    /\ pc' = "start"
    /\ kind' = "table"
    /\ schema_queue' = SchemaNames
    /\ cur_schema' = ""
    /\ cur_list' = <<>>
    /\ seen' = {}
    /\ iterated' = {}
    /\ out' = <<>>
    /\ admitted' = <<>>
    /\ enumerated' = {}
    /\ profile_requests' = <<>>
    /\ rows' = 0
    /\ faults' = 0
    /\ UNCHANGED <<variant, config, report, checkpoint, prior, aside>>

RunsNext == Next \/ Rerun

RunsSpec == RunsInit /\ [][RunsNext]_vars


(***************************************************************************)
(* Properties.                                                             *)
(***************************************************************************)
IsSoftDelete(wu) == wu.aspects = <<"status-removed">>

Deletions == {out[i] : i \in {j \in DOMAIN out : IsSoftDelete(out[j])}}

ExpectedStale == IF prior.exists THEN prior.entities \ checkpoint ELSE {}

C2_UniqueQualifiedNames ==
    \A i, j \in DOMAIN admitted :
        i # j => admitted[i].dataset_name # admitted[j].dataset_name

\* the name the running loop is at
CurrentName == get_identifier(IdentifierSchema(kind, cur_schema), Head(cur_list))

\* C3: in one iteration of an entity loop, a name the loop has been through
\* before changes neither the scanned counters nor the dropped list; a first
\* sighting adds one to the scanned counter of its kind and to no other; the
\* dropped list gains the name exactly when the pattern rejects a first
\* sighting, and then no record is emitted.
C3_AdmissionOrder ==
    [][(pc = "entity") =>
          LET dup == CurrentName \in iterated
              rejected == ~allowed(PatternOf(kind), CurrentName)
          IN  /\ dup => (report'.scanned = report.scanned /\ report'.filtered = report.filtered)
              /\ ~dup => report'.scanned = [report.scanned EXCEPT ![kind] = @ + 1]
              /\ (~dup /\ rejected) =>
                    (report'.filtered = Append(report.filtered, CurrentName) /\ out' = out)
              /\ ~(~dup /\ rejected) => report'.filtered = report.filtered]_vars

\* the records of the n-th admitted entity
EntityRecords(n) ==
    SelectSeq(SubSeq(out, admitted[n].at + 1,
                     IF n < Len(admitted) THEN admitted[n + 1].at ELSE Len(out)),
              LAMBDA wu : wu.urn = admitted[n].urn
                          /\ wu.aspects \notin {<<"datasetProfile">>, <<"status-removed">>})

\* place of a record in the order ownership, status with properties and schema,
\* container membership, platform instance, sub-type, upstream lineage
Rank(wu) ==
    CASE wu.aspects = <<"ownership">> -> 1
      [] wu.aspects[1] = "status" -> 2
      [] wu.aspects = <<"container">> -> 5
      [] wu.aspects = <<"dataPlatformInstance">> -> 6
      [] wu.aspects = <<"subTypes">> -> 7
      [] wu.aspects = <<"upstreamLineage">> -> 8
      [] OTHER -> 9

\* C4: the records of every admitted entity come in the order ownership,
\* status, properties, schema, container membership, platform instance,
\* sub-type, upstream lineage; none of container membership, sub-type and
\* lineage comes before the record that carries the status.
C4_EmissionOrder ==
    \A n \in DOMAIN admitted :
        LET recs == EntityRecords(n)
        IN  \A i, j \in DOMAIN recs : i < j => Rank(recs[i]) <= Rank(recs[j])

\* C5: whatever raises while a schema is crawled, the run does not abort, the
\* failures recorded are keyed by schema names, and a finished run has asked
\* for every included kind of every allowed schema.
C5_SchemaFailureIsolated ==
    /\ pc # "aborted"
    /\ \A i \in DOMAIN report.failures : report.failures[i].key \in Range(SchemaNames)
    /\ pc = "done" =>
          \A s \in Range(SchemaNames), k \in Range(Kinds) :
              (allowed(config.schema_pattern, s) /\ IncludeFlag(k)) => <<s, k>> \in enumerated

\* C6: when the processing of an admitted table, view, projection or model
\* raises, a warning keyed by the entity's qualified name is recorded, no
\* failure is, and the loop goes on with the next name of the schema.
C6_EntityFailureIsolated ==
    [][(pc = "entity" /\ kind # "OAuth" /\ faults' > faults) =>
          /\ \E i \in DOMAIN report'.warnings :
                /\ i > Len(report.warnings)
                /\ report'.warnings[i].key = CurrentName
          /\ report'.failures = report.failures
          /\ Tail(cur_list) # <<>> =>
                (pc' = "entity" /\ kind' = kind /\ cur_list' = Tail(cur_list))]_vars

\* C7: the type mapper never raises, and what it returns is a type of the
\* taxonomy.
C7_NormalisationTotal ==
    /\ tm.pc # "raised"
    /\ tm.pc = "mapped" => tm.field_type \in Taxonomy

\* C8: a mapped column whose base name is not registered has the Null type and
\* exactly one warning in the scan report, which names the column's dataset,
\* the native type and the column; a column whose base name is registered has
\* no warning.
C8_UnknownTypeWarned ==
    tm.pc = "mapped" =>
        IF Upper(tm.format_type.base) \in DOMAIN ischema_names
        THEN tm.warnings = <<>>
        ELSE /\ tm.field_type = "NullTypeClass"
             /\ Len(tm.warnings) = 1
             /\ tm.warnings[1].key = tm.dataset_name

\* C9: a schema the schema pattern rejects is never asked for its tables,
\* views, projections, models or profiling requests, has no container record
\* and no record in it, and the dropped list holds '<schema>.*' once after the
\* schema was reached and nothing else of it.
C9_RejectedSchemaNotDescended ==
    \A s \in Range(SchemaNames) :
        ~allowed(config.schema_pattern, s) =>
            /\ \A e \in enumerated : e[1] # s
            /\ \A i \in DOMAIN admitted : admitted[i].schema # s
            /\ \A i \in DOMAIN out :
                  /\ out[i].urn # schema_container_urn(get_db_name, s)
                  /\ out[i].parent # schema_container_urn(get_db_name, s)
            /\ Cardinality({i \in DOMAIN report.filtered : report.filtered[i] = s \o ".*"})
                  = (IF s \in Range(schema_queue) THEN 0 ELSE 1)
            /\ \A i \in DOMAIN report.filtered :
                  report.filtered[i] \notin {get_identifier(s, n) : n \in EntityNames}

\* a finished run that rejected s2 and admitted an entity of s1
C9_Witness ==
    /\ pc = "done"
    /\ ~allowed(config.schema_pattern, "s2")
    /\ "s2.*" \in Range(report.filtered)
    /\ <<"s1", "table">> \in enumerated
    /\ \E i \in DOMAIN admitted : admitted[i].schema = "s1"

\* the pattern the configuration names after the kind
OwnPattern(k) ==
    CASE k = "table" -> config.table_pattern
      [] k = "view" -> config.view_pattern
      [] k = "projection" -> config.projection_pattern
      [] k = "models" -> config.models_pattern

\* C10: a first sighting of a table, view, projection or model is admitted
\* exactly when the pattern of its own kind allows its qualified name.
C10_OwnPattern ==
    [][(pc = "entity" /\ kind # "OAuth" /\ CurrentName \notin iterated) =>
          (Len(admitted') = Len(admitted) + 1 <=> allowed(OwnPattern(kind), CurrentName))]_vars

\* the qualified name spelled in lower case
LowerCased(dataset_name) ==
    LET split == CHOOSE p \in AllSchemas \X (EntityNames \cup OAuthNames) :
                     dataset_name = get_identifier(p[1], p[2])
    IN  get_identifier(split[1], Lower(split[2]))

\* C11: qualified names are lower case, and a name that differs only in letter
\* case from one the running loop has been through is a duplicate: it changes
\* no scanned counter, nothing is emitted for it and no entity is admitted.
C11_CaseNormalised ==
    [][(pc = "entity" /\ kind # "OAuth") =>
          LET recased == \E d \in iterated :
                             d # CurrentName /\ LowerCased(d) = LowerCased(CurrentName)
          IN  /\ recased => (report'.scanned = report.scanned /\ out' = out
                             /\ admitted' = admitted)
              /\ \A i \in DOMAIN admitted' :
                    admitted'[i].dataset_name = LowerCased(admitted'[i].dataset_name)]_vars

\* the referenced objects of view_name in v_catalog.view_tables
ImmediateReferences(view_name) ==
    {LowerQualified(row.reference_table_schema, row.reference_table_name) :
        row \in {r \in Range(lm.view_tables) :
                    LowerQualified(r.table_schema, r.table_name) = view_name}}

\* C12: every entry of the lineage map attaches to a view an object that this
\* view references in v_catalog.view_tables.
C12_ImmediateReferencesOnly ==
    \A i \in DOMAIN lm.lineage_map :
        lm.lineage_map[i].view_upstream \in ImmediateReferences(lm.lineage_map[i].view_name)

\* C13: the lineage map holds no (view, upstream) pair twice and the lineage
\* record of the requested view names no upstream twice; a requested view that
\* references a single object has exactly one upstream in its record.
C13_EdgesOnce ==
    /\ \A i, j \in DOMAIN lm.lineage_map : i # j => lm.lineage_map[i] # lm.lineage_map[j]
    /\ \A i, j \in DOMAIN lm.upstreams : i # j => lm.upstreams[i] # lm.upstreams[j]
    /\ (lm.pc = "resolved" /\ lm.warnings = <<>>
        /\ lm.view = Lower(lm.view)
        /\ Cardinality(ImmediateReferences(get_identifier(lm.schema, lm.view))) = 1)
          => Len(lm.upstreams) = 1

C15_EveryKindTracked ==
    /\ \A e \in checkpoint : e[1] \in _entity_types
    /\ (variant = "common" /\ pc = "done") =>
          \A e \in ExpectedStale : SoftDeleteWU(e) \in Deletions

\* the positions of the deletion records in the output
DeletionPositions == {j \in DOMAIN out : IsSoftDelete(out[j])}

C17_RegistryPerContext ==
    [][\A context \in Contexts :
          (\E tp \in CustomTypes : <<context, tp>> \in reg'.registered \ reg.registered)
          => \A other \in Contexts \ {context} : \A column_type \in AskedTypes :
                get_column_type_in(reg', other, column_type)
                = get_column_type_in(reg, other, column_type)]_vars

\* C18: when a run has ended, by the end of the crawl, by an exception or by a
\* stop between two schemas, and the source has been closed, no engine that the
\* crawler or the generation of container keys acquired still has a connection
\* checked out or holds an open connection in its pool.
C18_AllReleased ==
    cn.pc \in {"done", "raised", "stopped", "closed"} =>
        /\ cn.checked_out = {}
        /\ cn.pool = {}

IsProfile(wu) == wu.aspects = <<"datasetProfile">>

\* C19: profiling does not interleave with crawling: when the profiler is
\* about to run or a profile record has been emitted, the loop over the
\* schemas has ended, every allowed schema has been enumerated for every
\* enabled kind (table, view, projection, model), no loop of these kinds is
\* running, and every entity of these kinds was admitted before the first
\* profile record.
C19_CrawlThenProfile ==
    (pc = "profiler" \/ \E i \in DOMAIN out : IsProfile(out[i])) =>
        /\ schema_queue = <<>>
        /\ pc \notin {"start", "schemas", "schema_container", "profile_requests"}
        /\ pc \in {"enum", "entity"} => kind = "OAuth"
        /\ \A schema \in Range(SchemaNames) :
              allowed(config.schema_pattern, schema) =>
                 \A k \in Range(Kinds) : IncludeFlag(k) => <<schema, k>> \in enumerated
        /\ \A a \in DOMAIN admitted : \A i \in DOMAIN out :
              (admitted[a].kind # "OAuth" /\ IsProfile(out[i])) => admitted[a].at < i

\* a finished run that crawled both schemas, admitted an entity and then
\* emitted a profile record
C19_Witness ==
    /\ pc = "done"
    /\ \E i \in DOMAIN out : IsProfile(out[i])
    /\ \E a \in DOMAIN admitted : admitted[a].kind # "OAuth"
    /\ \A schema \in Range(SchemaNames) : <<schema, "table">> \in enumerated

\* C20: a manifest node that has an identifier and an alias gets the
\* identifier as its name when use_identifiers is enabled; when it is disabled
\* the identifier of a node is never its name.
C20_IdentifierWhenEnabled ==
    dbt.pc = "extracted" =>
        /\ (/\ dbt.use_identifiers
            /\ dbt.manifest_node.identifier # Absent
            /\ dbt.manifest_node.alias \notin {Absent, None})
           => dbt.name = dbt.manifest_node.identifier
        /\ ~dbt.use_identifiers => dbt.name # dbt.manifest_node.identifier

\* the arguments of the three that the caller provided
ProvidedMetadata == {v \in {call.mce, call.mcp, call.mcp_raw} : v # None}

\* C21: the construction of a MetadataWorkUnit succeeds iff exactly one of
\* mce, mcp and mcp_raw is provided, and its metadata is then the provided
\* one; otherwise it raises ValueError and no work unit is made.
C21_ExactlyOneMetadata ==
    call.pc \in {"made", "raised"} =>
        /\ call.pc = "made" <=> Cardinality(ProvidedMetadata) = 1
        /\ call.pc = "made" => ProvidedMetadata = {call.metadata}
        /\ call.pc = "raised" => (call.error = "ValueError" /\ call.metadata = None)

\* a work unit made of an mcp alone
C21_Witness ==
    /\ call.pc = "made"
    /\ call.mcp # None
    /\ call.metadata = call.mcp

\* C22: numeric(p,s) and decimal(p,s) are mapped, without an exception, to the
\* Number type with exactly the two integer arguments p and s; integer with
\* any arguments is mapped to the Number type with no arguments.
C22_NumberArguments ==
    LET format_type == tm.format_type
        two_integers == /\ Len(format_type.args) = 2
                        /\ \A i \in 1..2 : IsDigits(format_type.args[i])
    IN  tm.pc \in {"column", "mapped", "raised"} =>
           /\ (format_type.base \in {"numeric", "decimal"} /\ two_integers) =>
                 /\ tm.pc # "raised"
                 /\ tm.coltype = "NUMERIC"
                 /\ column_args(format_type)
                    = <<ToInt(format_type.args[1]), ToInt(format_type.args[2])>>
                 /\ tm.pc = "mapped" => tm.field_type = "NumberTypeClass"
           /\ format_type.base = "integer" =>
                 /\ tm.pc # "raised"
                 /\ tm.coltype = "INTEGER"
                 /\ column_args(format_type) = <<>>
                 /\ tm.pc = "mapped" => tm.field_type = "NumberTypeClass"

\* C23: the checkpoint of a run holds every entity admitted in the run, whatever
\* its kind and whether or not a later step of its processing failed.
C23_AdmittedInCheckpoint ==
    \A a \in DOMAIN admitted :
        \E e \in checkpoint : e[2] = admitted[a].urn

\* C24: the fields of an entity are the rows of the schema-level column fetch
\* whose table name equals the name of the entity when both are compared
\* without regard to letter case, in the order of the fetch; they are empty
\* when no row matches.
C24_ColumnsOfEntity ==
    call.pc = "fields" =>
        call.finalcolumns
        = SelectSeq(call.columns, LAMBDA column : Lower(column.tablename) = Lower(call.name))

\* C25: the lineage lookup does not depend on letter case: the upstreams
\* resolved for a view are those the lineage map holds under the lower-cased
\* qualified name of the view, also when the engine reports the schema or the
\* name of the view with upper-case letters.
C25_LookupLowerCased ==
    lm.pc = "resolved" =>
        Range(lm.upstreams)
        = {make_dataset_urn(upstream) :
             upstream \in Range(LineageOf(lm.lineage_map, LowerQualified(lm.schema, lm.view)))}

\* C26: the lineage map used to answer for a view was built for that view of
\* that schema: a map built for an earlier view or schema never answers for
\* another one
C26_MapOfOwnView ==
    lm.pc = "resolved" => lm.built_for = <<lm.schema, lm.view>>

\* C27: the custom property original_table_name is present, with the raw name
\* as its value, exactly when the raw name differs from the last segment of the
\* qualified name, whatever the other custom properties are
C27_OriginalTableName ==
    call.pc = "made" =>
        (<<"original_table_name", call.table>> \in call.customProperties
            <=> call.table # LastSegment(call.table))

\* C28: no deletion record of a run is for an identifier for which the same run
\* has emitted a status record with removed = false, also when the entity is of
\* another kind than in the last run
C28_NoDeletionOfLiveEntity ==
    \A i, j \in DOMAIN out :
        (IsSoftDelete(out[i]) /\ "status" \in Range(out[j].aspects)) => out[i].urn # out[j].urn

\* the positions in the output of the records of admitted entities
RecordsOfAdmitted ==
    {i \in DOMAIN out : \E n \in DOMAIN admitted : admitted[n].urn = out[i].urn}

\* the kind of a record: a snapshot is known by its status aspect, any other
\* record by its one aspect
RecordKind(wu) == wu.aspects[1]

\* C29: two records of two admitted entities with different identifiers, or of
\* two kinds for one entity, never carry the same work-unit id, also when the
\* entities have the same name in two schemas
C29_IdsUniquePerEntityAndKind ==
    \A i, j \in RecordsOfAdmitted :
        (out[i].urn # out[j].urn \/ RecordKind(out[i]) # RecordKind(out[j]))
            => out[i].id # out[j].id

\* the kinds of the loops of one schema, in the order the claim gives them
KindRank(k) ==
    CASE k = "table" -> 1 [] k = "view" -> 2 [] k = "projection" -> 3 [] k = "models" -> 4

\* the entities admitted by the loops of the schemas, in the order of admission
AdmittedOfSchemas ==
    SelectSeq(admitted, LAMBDA e : e.kind \in {"table", "view", "projection", "models"})

====
